---- MODULE Spec2Model ----
(***************************************************************************)
(* Model of swift_cloud_py/api.py: the SwiftMobilityCloudApi client.       *)
(* Every call of get_optimized_fts / get_phase_diagram is a small process   *)
(* that runs the decorator chain (ensure_has_internet, authenticate) and   *)
(* then the method body, one action per statement group.  The class        *)
(* attribute _authentication_token is the only state shared by the calls.  *)
(***************************************************************************)
EXTENDS Integers, Sequences, FiniteSets, TLC

VARIABLES
    token,      \* SwiftMobilityCloudApi._authentication_token (NoToken = None)
    nIssued,    \* number of tokens the authentication collaborator has written
    call,       \* per caller: the frame of its current call
    nCalls,     \* number of calls started so far
    nPosts      \* number of requests.post invocations so far

vars == <<token, nIssued, call, nCalls, nPosts>>

-----------------------------------------------------------------------------
(* Bounds of the model *)

MaxCalls == 2       \* calls started in one behaviour
MaxTokens == 2      \* tokens the authentication collaborator hands out
MaxLights == 2      \* traffic lights per signal group / rates per entry

(* _authentication_token: str = None *)
NoToken == 0

Callers == {"c1", "c2"}
SeqCallers == {"c1"}

-----------------------------------------------------------------------------
(* Inputs *)

SignalGroupIds == {"A", "B"}

SignalGroup(i, n) == [id |-> i, traffic_lights |-> n]

\* intersection.signalgroups, in iteration order
Intersections ==
    {<<SignalGroup("A", n)>> : n \in 1..MaxLights}
    \cup {<<SignalGroup("A", n), SignalGroup("B", m)>> : n, m \in 1..MaxLights}

\* arrival_rates.id_to_arrival_rates, each entry abstracted to its length
ArrivalRates ==
    UNION {[S -> 1..MaxLights] : S \in SUBSET SignalGroupIds}

Schedules ==
    {[greenyellow_intervals |-> "gy1", period |-> 60],
     [greenyellow_intervals |-> "gy2", period |-> 90]}

\* the scenario of two signal groups with one and two traffic lights
ScenarioIntersection == <<SignalGroup("A", 1), SignalGroup("B", 2)>>
ScenarioRates == [i \in {"A", "B"} |-> IF i = "A" THEN 1 ELSE 2]

\* an optional keyword argument is the empty set (omitted) or a singleton;
\* every intersection and mapping with the defaults, every choice of keyword
\* arguments with the scenario
FtsInputs ==
    [op : {"get_optimized_fts"},
     intersection : Intersections,
     arrival_rates : ArrivalRates,
     min_period_duration : {{}},
     max_period_duration : {{}},
     objective : {{}},
     online : BOOLEAN,
     credentials_ok : BOOLEAN]
    \cup
    [op : {"get_optimized_fts"},
     intersection : {ScenarioIntersection},
     arrival_rates : {ScenarioRates},
     min_period_duration : {{}, {30}},
     max_period_duration : {{}, {120}},
     objective : {{}, {"min_period"}},
     online : BOOLEAN,
     credentials_ok : BOOLEAN]

PdInputs ==
    [op : {"get_phase_diagram"},
     intersection : {ScenarioIntersection},
     fixed_time_schedule : Schedules,
     online : BOOLEAN,
     credentials_ok : BOOLEAN]

Inputs == FtsInputs \cup PdInputs

\* the reduced inputs of the two-caller specification
ConcInputs ==
    {in \in Inputs :
        /\ in.intersection = ScenarioIntersection
        /\ in.op = "get_optimized_fts" =>
              /\ in.arrival_rates \in {ScenarioRates, [i \in {"A"} |-> 1]}
              /\ in.min_period_duration = {}
              /\ in.max_period_duration = {}
              /\ in.objective = {}
        /\ in.op = "get_phase_diagram" => in.fixed_time_schedule.period = 60
        /\ in.online}

-----------------------------------------------------------------------------
(* Responses of the cloud *)

EmptyDict == [k \in {} |-> 0]

ScheduleJson == [greenyellow_intervals |-> "gy1", period |-> 60]

\* decoded JSON bodies (python dicts), by the keys they hold
JsonDicts ==
    {EmptyDict,
     [msg |-> "upgrade"],
     [phase_diagram |-> "pd1"],
     [obj_value |-> 12, fixed_time_schedule |-> ScheduleJson, phase_diagram |-> "pd1"],
     [obj_value |-> 7, fixed_time_schedule |-> ScheduleJson, phase_diagram |-> "pd1",
      msg |-> "upgrade"]}

\* a body is JSON text or text that is no JSON at all
Bodies == {[kind |-> "text"]} \cup {[kind |-> "json", dict |-> d] : d \in JsonDicts}

StatusCodes == {200, 400, 401, 402, 403, 426, 504, 599}

Responses == [status_code : StatusCodes, body : Bodies]

ConcResponses ==
    {r \in Responses :
        /\ r.status_code \in {200, 401}
        /\ r.body.kind = "json"
        /\ r.body.dict \in {[msg |-> "upgrade"],
                            [obj_value |-> 12, fixed_time_schedule |-> ScheduleJson,
                             phase_diagram |-> "pd1"]}}

-----------------------------------------------------------------------------
(* Outcomes of a call or of a step *)

NoText == ""

Message(text, body_str, fmt_arg) ==
    [text |-> text, body_str |-> body_str, fmt_arg |-> fmt_arg]

Raise(exc, msg) == [kind |-> "raise", exc |-> exc, msg |-> msg]

Pending == [kind |-> "none"]

Return(value) == [kind |-> "return", value |-> value]

\* response.json(): the decoded dict, or ValueError when the body is no JSON
JsonOk(response) == response.body.kind = "json"

JsonOf(response) == response.body.dict

JsonError == Raise("ValueError", Message(NoText, {}, {}))

KeyError(key) == Raise("KeyError", Message(key, {}, {}))

\* d[key]
Has(d, key) == key \in DOMAIN d

(* check_status_code(response): Pending when nothing is raised *)
check_status_code(response) ==
    IF response.status_code \in {400}
    THEN IF JsonOk(response)
         THEN Raise("BadRequestException", Message(NoText, {JsonOf(response)}, {}))
         ELSE JsonError
    ELSE IF response.status_code \in {401}
    THEN Raise("UnauthorizedException",
               Message("JWT validation failed: Missing or invalid credentials", {}, {}))
    ELSE IF response.status_code \in {402}
    THEN Raise("UnauthorizedException",
               Message("Insufficient credits (cpu seconds) left.", {}, {}))
    ELSE IF response.status_code \in {403}
    THEN Raise("UnauthorizedException", Message("Forbidden.", {}, {}))
    ELSE IF response.status_code \in {426}
    THEN IF ~JsonOk(response) THEN JsonError
         ELSE IF ~Has(JsonOf(response), "msg") THEN KeyError("msg")
         ELSE Raise("UnauthorizedException",
                    Message("The cloud api is still in the beta phase; this means it might change. Message from cloud: ",
                            {}, {JsonOf(response).msg}))
    ELSE IF response.status_code \in {504}
    THEN Raise("TimeoutError", Message(NoText, {}, {}))
    ELSE IF response.status_code # 200
    THEN Raise("UnkownCloudException", Message(NoText, {}, {}))
    ELSE Pending

-----------------------------------------------------------------------------
(* Collaborators outside api.py: codecs and enum values *)

\* x.to_json(): a JSON form that determines x
ToJson(type, x) == [json_of |-> type, data |-> x]

\* FixedTimeSchedule.to_json(): a dict holding greenyellow_intervals and period
ScheduleToJson(fts) ==
    [greenyellow_intervals |-> fts.greenyellow_intervals, period |-> fts.period]

\* T.from_json(j)
FromJson(type, j) == [object_of |-> type, json |-> j]

\* objective.value
EnumValue(member) == [value_of |-> member]

-----------------------------------------------------------------------------
(* Arguments of get_optimized_fts and their defaults *)

DefaultMinPeriodDuration == 0
DefaultMaxPeriodDuration == 180
DefaultObjective == "min_delay"

OrDefault(given, default) == IF given = {} THEN default ELSE CHOOSE v \in given : TRUE

MinPeriodDuration(in) == OrDefault(in.min_period_duration, DefaultMinPeriodDuration)
MaxPeriodDuration(in) == OrDefault(in.max_period_duration, DefaultMaxPeriodDuration)
Objective(in) == OrDefault(in.objective, DefaultObjective)

\* the asserts with the length check forgotten
RECURSIVE CheckArrivalRatesIdsOnly(_, _, _)
CheckArrivalRatesIdsOnly(signalgroups, id_to_arrival_rates, k) ==
    IF k > Len(signalgroups) THEN Pending
    ELSE IF signalgroups[k].id \notin DOMAIN id_to_arrival_rates
         THEN Raise("AssertionError",
                    Message("arrival rate(s) must be specified for signalgroup ",
                            {}, {signalgroups[k].id}))
         ELSE CheckArrivalRatesIdsOnly(signalgroups, id_to_arrival_rates, k + 1)

(* the loop of asserts over intersection.signalgroups, from group k on *)
RECURSIVE CheckArrivalRates(_, _, _)
CheckArrivalRates(signalgroups, id_to_arrival_rates, k) ==
    IF k > Len(signalgroups) THEN Pending
    ELSE LET signalgroup == signalgroups[k] IN
         IF signalgroup.id \notin DOMAIN id_to_arrival_rates
         THEN Raise("AssertionError",
                    Message("arrival rate(s) must be specified for signalgroup ",
                            {}, {signalgroup.id}))
         ELSE IF id_to_arrival_rates[signalgroup.id] # signalgroup.traffic_lights
         THEN Raise("AssertionError",
                    Message("arrival rate(s) must be specified for all traffic lights of signalgroup ",
                            {}, {signalgroup.id}))
         ELSE CheckArrivalRates(signalgroups, id_to_arrival_rates, k + 1)

\* the period bounds passed in each other's place
FtsJsonDictSwappedPeriods(in) ==
    [intersection |-> ToJson("Intersection", in.intersection),
     arrival_rates |-> ToJson("ArrivalRates", in.arrival_rates),
     min_period_duration |-> MaxPeriodDuration(in),
     max_period_duration |-> MinPeriodDuration(in),
     objective |-> EnumValue(Objective(in)),
     version |-> "0.7.0.alpha",
     request_id |-> "123-456"]

(* json_dict of get_optimized_fts *)
FtsJsonDict(in) ==
    [intersection |-> ToJson("Intersection", in.intersection),
     arrival_rates |-> ToJson("ArrivalRates", in.arrival_rates),
     min_period_duration |-> MinPeriodDuration(in),
     max_period_duration |-> MaxPeriodDuration(in),
     objective |-> EnumValue(Objective(in)),
     version |-> "0.7.0.alpha",
     request_id |-> "123-456"]

(* json_dict of get_phase_diagram *)
PdJsonDict(in) ==
    [intersection |-> ToJson("Intersection", in.intersection),
     greenyellow_intervals |-> ScheduleToJson(in.fixed_time_schedule).greenyellow_intervals,
     period |-> ScheduleToJson(in.fixed_time_schedule).period]

JsonDict(in) == IF in.op = "get_optimized_fts" THEN FtsJsonDict(in) ELSE PdJsonDict(in)

Endpoint(in) ==
    IF in.op = "get_optimized_fts" THEN "/fts-optimization"
    ELSE "/phase-diagram-computation"

\* no except clause: the transport exception propagates
OnConnectionErrorUncaught == Raise("ConnectionError", Message(NoText, {}, {}))

(* the except clause around requests.post *)
OnConnectionError ==
    Raise("UnkownCloudException",
          Message("Connection with swift mobility cloud api could not be established",
                  {}, {}))

(* "parse output" of get_optimized_fts *)
FtsParseOutput(response) ==
    IF ~JsonOk(response) THEN JsonError
    ELSE LET output == JsonOf(response) IN
         IF ~Has(output, "obj_value") THEN KeyError("obj_value")
         ELSE IF ~Has(output, "fixed_time_schedule") THEN KeyError("fixed_time_schedule")
         ELSE IF ~Has(output, "phase_diagram") THEN KeyError("phase_diagram")
         ELSE Return([fixed_time_schedule |->
                          FromJson("FixedTimeSchedule", output.fixed_time_schedule),
                      phase_diagram |-> FromJson("PhaseDiagram", output.phase_diagram),
                      objective_value |-> output.obj_value])

(* "parse output" of get_phase_diagram *)
PdParseOutput(response) ==
    IF ~JsonOk(response) THEN JsonError
    ELSE LET output == JsonOf(response) IN
         IF ~Has(output, "phase_diagram") THEN KeyError("phase_diagram")
         ELSE Return([phase_diagram |-> FromJson("PhaseDiagram", output.phase_diagram)])

ParseOutput(in, response) ==
    IF in.op = "get_optimized_fts" THEN FtsParseOutput(response)
    ELSE PdParseOutput(response)

-----------------------------------------------------------------------------
(* The decorator chain *)

WrappersWithoutInternetCheck == <<"authenticate">>
WrappersSwapped == <<"authenticate", "ensure_has_internet">>
WrappersWithoutAuthenticate == <<"ensure_has_internet">>

\* the decorators of both methods, outermost first
Wrappers == <<"ensure_has_internet", "authenticate">>

BodyEntry(op) == IF op = "get_optimized_fts" THEN "validate" ELSE "headers"

FirstStage(op) == IF Wrappers = <<>> THEN BodyEntry(op) ELSE Wrappers[1]

\* what a wrapper calls once its own check has passed
Wrapped(stage, op) ==
    LET k == CHOOSE i \in 1..Len(Wrappers) : Wrappers[i] = stage
    IN IF k < Len(Wrappers) THEN Wrappers[k + 1] ELSE BodyEntry(op)

-----------------------------------------------------------------------------
(* Frames of calls *)

IdleFrame ==
    [pc |-> "idle", in |-> {}, steps |-> <<>>, authTok |-> NoToken, hdr |-> NoToken,
     payload |-> {}, sent |-> {}, response |-> {}, outcome |-> Pending,
     posts |-> 0, netio |-> 0]

NewFrame(in) == [IdleFrame EXCEPT !.pc = FirstStage(in.op), !.in = {in}]

In(c) == CHOOSE in \in call[c].in : TRUE

Response(c) == CHOOSE r \in call[c].response : TRUE

\* the frame of a call that ends by raising or returning
Ended(frame, step, outcome) ==
    [frame EXCEPT !.pc = "done", !.steps = Append(@, step), !.outcome = outcome]

\* the frame of a call that goes on to the next statement
Goes(frame, step, pc) == [frame EXCEPT !.pc = pc, !.steps = Append(@, step)]

Init ==
    /\ token = NoToken
    /\ nIssued = 0
    /\ call = [c \in Callers |-> IdleFrame]
    /\ nCalls = 0
    /\ nPosts = 0

-----------------------------------------------------------------------------
(* Actions *)

(* a caller invokes cls.get_optimized_fts(...) or cls.get_phase_diagram(...) *)
Invoke(c, in) ==
    /\ call[c].pc = "idle"
    /\ nCalls < MaxCalls
    /\ call' = [call EXCEPT ![c] = NewFrame(in)]
    /\ nCalls' = nCalls + 1
    /\ UNCHANGED <<token, nIssued, nPosts>>

(* @ensure_has_internet: probe the network, then call the wrapped function *)
EnsureHasInternet(c) ==
    /\ call[c].pc = "ensure_has_internet"
    /\ LET probed == [call[c] EXCEPT !.netio = @ + 1] IN
       call' = [call EXCEPT ![c] =
                   IF In(c).online
                   THEN Goes(probed, "connectivity", Wrapped("ensure_has_internet", In(c).op))
                   ELSE Ended(probed, "connectivity",
                              Raise("NoConnectivityError", Message(NoText, {}, {})))]
    /\ UNCHANGED <<token, nIssued, nCalls, nPosts>>

(* @authenticate: make cls._authentication_token a valid token, then call on *)
Authenticate(c) ==
    /\ call[c].pc = "authenticate"
    /\ \/ /\ ~In(c).credentials_ok
          /\ call' = [call EXCEPT ![c] =
                         Ended([@ EXCEPT !.netio = @ + 1], "authenticate",
                               Raise("AuthenticationError", Message(NoText, {}, {})))]
          /\ UNCHANGED <<token, nIssued>>
       \/ /\ In(c).credentials_ok
          /\ token # NoToken
          /\ call' = [call EXCEPT ![c] =
                         Goes([@ EXCEPT !.authTok = token], "authenticate",
                              Wrapped("authenticate", In(c).op))]
          /\ UNCHANGED <<token, nIssued>>
       \/ /\ In(c).credentials_ok
          /\ nIssued < MaxTokens
          /\ token' = nIssued + 1
          /\ nIssued' = nIssued + 1
          /\ call' = [call EXCEPT ![c] =
                         Goes([@ EXCEPT !.authTok = nIssued + 1, !.netio = @ + 1],
                              "authenticate", Wrapped("authenticate", In(c).op))]
    /\ UNCHANGED <<nCalls, nPosts>>

(* get_optimized_fts: the asserts on the arrival rates *)
Validate(c) ==
    /\ call[c].pc = "validate"
    /\ LET checked == CheckArrivalRates(In(c).intersection, In(c).arrival_rates, 1) IN
       call' = [call EXCEPT ![c] =
                   IF checked = Pending
                   THEN Goes(@, "validate", "headers")
                   ELSE Ended(@, "validate", checked)]
    /\ UNCHANGED <<token, nIssued, nCalls, nPosts>>

(* headers = {'authorization': 'Bearer {0:s}'.format(cls._authentication_token)} *)
BuildHeaders(c) ==
    /\ call[c].pc = "headers"
    /\ call' = [call EXCEPT ![c] =
                   IF token = NoToken
                   THEN Ended(@, "headers", Raise("TypeError", Message(NoText, {}, {})))
                   ELSE Goes([@ EXCEPT !.hdr = token], "headers", "serialize")]
    /\ UNCHANGED <<token, nIssued, nCalls, nPosts>>

(* json_dict = dict(...) *)
Serialize(c) ==
    /\ call[c].pc = "serialize"
    /\ call' = [call EXCEPT ![c] =
                   Goes([@ EXCEPT !.payload = {JsonDict(In(c))}], "serialize", "post")]
    /\ UNCHANGED <<token, nIssued, nCalls, nPosts>>

(* r = requests.post(endpoint, json=json_dict, headers=headers) *)
Post(c, responses) ==
    /\ call[c].pc = "post"
    /\ LET posted == [call[c] EXCEPT
                         !.posts = @ + 1, !.netio = @ + 1,
                         !.sent = {[endpoint |-> Endpoint(In(c)),
                                    json |-> call[c].payload,
                                    authorization |-> <<"Bearer", call[c].hdr>>]}]
       IN \/ call' = [call EXCEPT ![c] = Ended(posted, "post", OnConnectionError)]
          \/ \E r \in responses :
                call' = [call EXCEPT ![c] =
                            Goes([posted EXCEPT !.response = {r}], "post", "classify")]
    /\ nPosts' = nPosts + 1
    /\ UNCHANGED <<token, nIssued, nCalls>>

\* a client that posts again when the status is not 200
ClassifyRetrying(c) ==
    /\ call[c].pc = "classify"
    /\ LET checked == check_status_code(Response(c)) IN
       call' = [call EXCEPT ![c] =
                   IF checked = Pending
                   THEN Goes(@, "classify", "decode")
                   ELSE Goes(@, "classify", "post")]
    /\ UNCHANGED <<token, nIssued, nCalls, nPosts>>

\* a client that drops the cached token when the cloud rejects it
ClassifyDroppingToken(c) ==
    /\ call[c].pc = "classify"
    /\ LET checked == check_status_code(Response(c)) IN
       /\ call' = [call EXCEPT ![c] =
                      IF checked = Pending
                      THEN Goes(@, "classify", "decode")
                      ELSE Ended(@, "classify", checked)]
       /\ token' = IF checked = Pending THEN token ELSE NoToken
    /\ UNCHANGED <<nIssued, nCalls, nPosts>>

(* check_status_code(response=r) *)
Classify(c) ==
    /\ call[c].pc = "classify"
    /\ LET checked == check_status_code(Response(c)) IN
       call' = [call EXCEPT ![c] =
                   IF checked = Pending
                   THEN Goes(@, "classify", "decode")
                   ELSE Ended(@, "classify", checked)]
    /\ UNCHANGED <<token, nIssued, nCalls, nPosts>>

(* output = r.json(); ...from_json(...); return ... *)
Decode(c) ==
    /\ call[c].pc = "decode"
    /\ call' = [call EXCEPT ![c] = Ended(@, "decode", ParseOutput(In(c), Response(c)))]
    /\ UNCHANGED <<token, nIssued, nCalls, nPosts>>

(* the exception or the result reaches the caller; the frame is discarded *)
Finish(c) ==
    /\ call[c].pc = "done"
    /\ call' = [call EXCEPT ![c] = IdleFrame]
    /\ UNCHANGED <<token, nIssued, nCalls, nPosts>>

Step(c, responses) ==
    \/ EnsureHasInternet(c)
    \/ Authenticate(c)
    \/ Validate(c)
    \/ BuildHeaders(c)
    \/ Serialize(c)
    \/ Post(c, responses)
    \/ Classify(c)
    \/ Decode(c)
    \/ Finish(c)

\* one client used by one caller, all inputs and responses
Next ==
    \E c \in SeqCallers :
        \/ \E in \in Inputs : Invoke(c, in)
        \/ Step(c, Responses)

Spec == Init /\ [][Next]_vars

\* one client shared by two interleaving callers
NextConc ==
    \E c \in Callers :
        \/ \E in \in ConcInputs : Invoke(c, in)
        \/ Step(c, ConcResponses)

SpecConc == Init /\ [][NextConc]_vars

-----------------------------------------------------------------------------
(* Vocabulary of the properties *)

Began(c) == call[c].in # {}

Done(c) == call[c].pc = "done"

Did(c, step) == \E i \in 1..Len(call[c].steps) : call[c].steps[i] = step

LastStep(c) == call[c].steps[Len(call[c].steps)]

IsFts(c) == Began(c) /\ In(c).op = "get_optimized_fts"

Raised(c, exc) == call[c].outcome.kind = "raise" /\ call[c].outcome.exc = exc

\* some signal group has no entry, or an entry of another length than its lights
RatesInvalid(in) ==
    \E k \in 1..Len(in.intersection) :
        \/ in.intersection[k].id \notin DOMAIN in.arrival_rates
        \/ /\ in.intersection[k].id \in DOMAIN in.arrival_rates
           /\ in.arrival_rates[in.intersection[k].id] # in.intersection[k].traffic_lights

\* the error the status table gives a status code that is not 200
TableError(status) ==
    CASE status = 400 -> "BadRequestException"
      [] status \in {401, 402, 403, 426} -> "UnauthorizedException"
      [] status = 504 -> "TimeoutError"
      [] OTHER -> "UnkownCloudException"

TableText(status) ==
    CASE status = 401 -> "JWT validation failed: Missing or invalid credentials"
      [] status = 402 -> "Insufficient credits (cpu seconds) left."
      [] status = 403 -> "Forbidden."
      [] OTHER -> NoText

IsPrefix(s, t) == Len(s) <= Len(t) /\ SubSeq(t, 1, Len(s)) = s

PipelineOrder ==
    <<"connectivity", "authenticate", "serialize", "post", "classify", "decode">>

InPipeline(step) == \E i \in 1..Len(PipelineOrder) : PipelineOrder[i] = step

PipelineSteps(c) == SelectSeq(call[c].steps, InPipeline)

ConnectionFailed(c) == Done(c) /\ LastStep(c) = "post"

-----------------------------------------------------------------------------
(* C1: every classified response ends as the status table says: no error   *)
(* for 200, otherwise the table's error for that status code, for every    *)
(* response body, with the table's message for 401, 402 and 403.           *)
C1_StatusTable ==
    \A c \in Callers :
        Did(c, "classify") =>
            LET status == Response(c).status_code IN
            IF status = 200
            THEN LastStep(c) # "classify" \/ ~Done(c)
            ELSE /\ LastStep(c) = "classify"
                 /\ Raised(c, TableError(status))
                 /\ status \in {401, 402, 403} =>
                        call[c].outcome.msg.text = TableText(status)

(* C2 as stated: a finished get_optimized_fts call with invalid arrival     *)
(* rates has failed with the validation error after no network I/O at all.  *)
C2_Original ==
    \A c \in Callers :
        (Done(c) /\ IsFts(c) /\ RatesInvalid(In(c))) =>
            /\ Raised(c, "AssertionError")
            /\ call[c].netio = 0

(* C2 amended: a get_optimized_fts call with invalid arrival rates never    *)
(* issues an HTTP POST nor builds a request, and it fails with the          *)
(* validation error once the connectivity check and the authentication     *)
(* (which run first and use the network) have passed.                       *)
C2_NoPostOnInvalidRates ==
    \A c \in Callers :
        (IsFts(c) /\ RatesInvalid(In(c))) =>
            /\ call[c].posts = 0
            /\ call[c].sent = {}
            /\ call[c].payload = {}
            /\ ~Did(c, "post")
            /\ (Done(c) /\ In(c).online /\ In(c).credentials_ok) =>
                   /\ Raised(c, "AssertionError")
                   /\ LastStep(c) = "validate"
            /\ Raised(c, "AssertionError") => call[c].netio >= 1

C2_Witness ==
    \E c \in Callers :
        /\ Done(c) /\ IsFts(c) /\ RatesInvalid(In(c))
        /\ DOMAIN In(c).arrival_rates = SignalGroupIds
        /\ Raised(c, "AssertionError")
        /\ call[c].netio >= 1

(* C3: the steps of a call happen in the order connectivity check, token    *)
(* acquisition, serialization, POST, classification, deserialization; a     *)
(* failed step ends the call; a result is returned only after all of them;  *)
(* without connectivity the call ends with NoConnectivityError before any   *)
(* token acquisition, request or POST, and a failed authentication ends it  *)
(* before any payload or POST.                                              *)
C3_StepOrder ==
    \A c \in Callers :
        /\ IsPrefix(PipelineSteps(c), PipelineOrder)
        /\ call[c].outcome.kind # "none" => Done(c)
        /\ call[c].outcome.kind = "return" => PipelineSteps(c) = PipelineOrder
        /\ (Done(c) /\ ~In(c).online) =>
               /\ Raised(c, "NoConnectivityError")
               /\ call[c].steps = <<"connectivity">>
               /\ call[c].authTok = NoToken
               /\ call[c].hdr = NoToken
               /\ call[c].payload = {}
               /\ call[c].posts = 0
        /\ (Done(c) /\ In(c).online /\ ~In(c).credentials_ok) =>
               /\ Raised(c, "AuthenticationError")
               /\ call[c].steps = <<"connectivity", "authenticate">>
               /\ call[c].payload = {}
               /\ call[c].posts = 0

C3_Witness ==
    \E c \in Callers :
        /\ Done(c)
        /\ call[c].outcome.kind = "return"
        /\ PipelineSteps(c) = PipelineOrder

(* C4 as stated: a failed connection ends the call with an error of another *)
(* type than the catch-all of the status classification.                    *)
C4_Original ==
    \A c \in Callers :
        ConnectionFailed(c) =>
            /\ call[c].outcome.kind = "raise"
            /\ call[c].outcome.exc # "ConnectionError"
            /\ call[c].outcome.exc #
                   check_status_code([status_code |-> 599, body |-> [kind |-> "text"]]).exc

(* C4 amended: a failed connection ends the call with UnkownCloudException, *)
(* the type of the catch-all, carrying the message that the connection      *)
(* could not be established; never with the transport exception; nothing    *)
(* is classified or decoded in that call.                                   *)
C4_ConnectionFailure ==
    \A c \in Callers :
        ConnectionFailed(c) =>
            /\ Raised(c, "UnkownCloudException")
            /\ call[c].outcome.msg.text =
                   "Connection with swift mobility cloud api could not be established"
            /\ call[c].response = {}
            /\ ~Did(c, "classify")
            /\ ~Did(c, "decode")

C4_Witness ==
    \E c \in Callers :
        /\ ConnectionFailed(c)
        /\ In(c).op = "get_phase_diagram"
        /\ call[c].posts = 1

Sent(c) == CHOOSE m \in call[c].sent : TRUE

SentJson(c) == CHOOSE d \in Sent(c).json : TRUE

GivenOr(given, default) == IF given = {} THEN default ELSE CHOOSE v \in given : TRUE

FtsResultKeys == {"obj_value", "fixed_time_schedule", "phase_diagram"}

\* the posted body holds the arguments of the call, defaults filled in
FtsArgumentsPosted(c) ==
    /\ SentJson(c).intersection = ToJson("Intersection", In(c).intersection)
    /\ SentJson(c).arrival_rates = ToJson("ArrivalRates", In(c).arrival_rates)
    /\ SentJson(c).min_period_duration = GivenOr(In(c).min_period_duration, 0)
    /\ SentJson(c).max_period_duration = GivenOr(In(c).max_period_duration, 180)
    /\ SentJson(c).objective = EnumValue(GivenOr(In(c).objective, "min_delay"))

\* the POST carries a bearer token, and a returned objective value is obj_value
FtsHeaderAndObjective(c) ==
    /\ Sent(c).endpoint = "/fts-optimization"
    /\ Sent(c).authorization[1] = "Bearer"
    /\ Sent(c).authorization[2] \in 1..nIssued
    /\ call[c].outcome.kind = "return" =>
           /\ Response(c).status_code = 200
           /\ call[c].outcome.value.objective_value = JsonOf(Response(c)).obj_value
    /\ (Done(c) /\ call[c].response # {}) =>
           ((/\ Response(c).status_code = 200
             /\ JsonOk(Response(c))
             /\ FtsResultKeys \subseteq DOMAIN JsonOf(Response(c)))
            => call[c].outcome.kind = "return")

(* C5 as stated: the body posted by get_optimized_fts has exactly the five  *)
(* fields intersection, arrival_rates, min_period_duration,                 *)
(* max_period_duration and objective.                                       *)
C5_Original ==
    \A c \in Callers :
        (IsFts(c) /\ call[c].sent # {}) =>
            /\ DOMAIN SentJson(c) =
                   {"intersection", "arrival_rates", "min_period_duration",
                    "max_period_duration", "objective"}
            /\ FtsArgumentsPosted(c)

(* C5 amended: the body posted by get_optimized_fts has the five fields of  *)
(* the call's arguments (defaults 0, 180 and min_delay) and also the fixed  *)
(* fields version = "0.7.0.alpha" and request_id = "123-456"; the POST      *)
(* carries the header Bearer <token>; whenever a result is returned, from a *)
(* 200 response, its objective value is the response's obj_value.           *)
C5_PostedBody ==
    \A c \in Callers :
        (IsFts(c) /\ call[c].sent # {}) =>
            /\ DOMAIN SentJson(c) =
                   {"intersection", "arrival_rates", "min_period_duration",
                    "max_period_duration", "objective", "version", "request_id"}
            /\ SentJson(c).version = "0.7.0.alpha"
            /\ SentJson(c).request_id = "123-456"
            /\ FtsArgumentsPosted(c)
            /\ FtsHeaderAndObjective(c)

C5_Witness ==
    \E c \in Callers :
        /\ IsFts(c) /\ Done(c)
        /\ In(c).min_period_duration = {}
        /\ In(c).max_period_duration = {}
        /\ In(c).objective = {"min_period"}
        /\ call[c].sent # {}
        /\ call[c].outcome.kind = "return"
        /\ call[c].outcome.value.objective_value = 12

(* C6: a call whose response has a status other than 200 ends by raising    *)
(* the error of the status table for that status, and nothing of the        *)
(* response is decoded into a result.                                       *)
C6_NonOkRaisesTableError ==
    \A c \in Callers :
        (Done(c) /\ call[c].response # {} /\ Response(c).status_code # 200) =>
            /\ Raised(c, TableError(Response(c).status_code))
            /\ ~Did(c, "decode")

(* C7: a call issues at most one POST, and exactly one by the time it ends  *)
(* when the connectivity check, the authentication and the arrival-rate     *)
(* precondition pass; no failure is followed by another POST of that call;  *)
(* the POSTs never outnumber the calls.                                     *)
C7_AtMostOnePost ==
    /\ nPosts <= nCalls
    /\ \A c \in Callers :
          /\ call[c].posts <= 1
          /\ call[c].posts = Len(SelectSeq(call[c].steps, LAMBDA st : st = "post"))
          /\ (/\ Done(c)
              /\ In(c).online
              /\ In(c).credentials_ok
              /\ IsFts(c) => ~RatesInvalid(In(c)))
             => call[c].posts = 1

C7_Witness ==
    \E c \in Callers :
        /\ Done(c)
        /\ call[c].posts = 1
        /\ call[c].outcome.kind = "raise"
        /\ Did(c, "classify")
        /\ nCalls = 2
        /\ nPosts = 2

(* C8: the cached token changes only in a step of the authenticate          *)
(* decorator; every step of the method bodies and of the connectivity      *)
(* check leaves it as it was, whatever the path.                            *)
C8_TokenWrittenByAuthenticate ==
    [][\A c \in Callers :
          (call'[c] # call[c] /\ call[c].pc # "authenticate") => token' = token]_vars

C8_Witness ==
    \E c \in Callers :
        /\ Done(c)
        /\ Raised(c, "UnauthorizedException")
        /\ token # NoToken
        /\ token = call[c].hdr

(* C9: a get_optimized_fts call with invalid arrival rates ends with        *)
(* NoConnectivityError without connectivity, with the authentication error  *)
(* with connectivity and invalid credentials, and with the validation       *)
(* failure only otherwise; the validation step always comes after a         *)
(* successful connectivity check and token acquisition.                     *)
C9_ErrorPrecedence ==
    \A c \in Callers :
        /\ (Done(c) /\ IsFts(c) /\ RatesInvalid(In(c))) =>
               /\ ~In(c).online => Raised(c, "NoConnectivityError")
               /\ (In(c).online /\ ~In(c).credentials_ok) =>
                      Raised(c, "AuthenticationError")
               /\ (In(c).online /\ In(c).credentials_ok) => Raised(c, "AssertionError")
        /\ Did(c, "validate") =>
               /\ SubSeq(call[c].steps, 1, 3) = <<"connectivity", "authenticate", "validate">>
               /\ call[c].authTok # NoToken
               /\ In(c).online
               /\ In(c).credentials_ok

C9_Witness ==
    \E c \in Callers :
        /\ Done(c) /\ IsFts(c) /\ RatesInvalid(In(c))
        /\ ~In(c).online
        /\ ~In(c).credentials_ok
        /\ Raised(c, "NoConnectivityError")

\* the position of the first occurrence of a step in the steps of a call
Position(c, step) == CHOOSE i \in 1..Len(call[c].steps) : call[c].steps[i] = step

(* C10: the token of the authorization header is the cached token as read   *)
(* after the call's own authenticate step succeeded: the header is built    *)
(* only after that step, it never holds the unset token, it holds a token   *)
(* written by an authenticate step and none older than the one cached when  *)
(* the call's own authenticate step ended, and the POST carries it.         *)
C10_HeaderTokenAfterAuthenticate ==
    \A c \in Callers :
        /\ Did(c, "headers") =>
               /\ Did(c, "authenticate")
               /\ Position(c, "authenticate") < Position(c, "headers")
               /\ ~Raised(c, "TypeError")
               /\ call[c].hdr # NoToken
               /\ call[c].hdr \in 1..nIssued
               /\ call[c].hdr >= call[c].authTok
               /\ call[c].authTok # NoToken
        /\ call[c].sent # {} =>
               /\ Did(c, "headers")
               /\ Sent(c).authorization = <<"Bearer", call[c].hdr>>

C10_Witness ==
    \E c, d \in Callers :
        /\ c # d
        /\ call[c].sent # {}
        /\ Sent(c).authorization[2] > call[c].authTok
        /\ call[d].authTok = call[c].hdr
        /\ call[d].pc = "headers"

====
